---------------------------- MODULE Spec2Model ----------------------------
(***************************************************************************)
(* A model of the libp2p-workshop node (src/src/main.rs): the event loop   *)
(* of main(), its four maps (file_list, providing, pending_requests and    *)
(* the address book kept by request_response), the announcement codec and  *)
(* the local file system, for a small network of nodes running the program *)
(* plus one foreign peer.                                                  *)
(*                                                                         *)
(* Strings, payloads, paths and addresses are sequences of bytes (0..255), *)
(* so that the codecs are computed the way the program computes them.      *)
(***************************************************************************)
EXTENDS Naturals, Sequences, FiniteSets, TLC

(***************************************************************************)
(* Option values: <<>> is None, <<x>> is Some(x).                          *)
(***************************************************************************)
None == <<>>
Some(x) == <<x>>
IsSome(o) == Len(o) = 1
Unwrap(o) == o[1]

Take(s, k) == SubSeq(s, 1, k)
Drop(s, k) == SubSeq(s, k + 1, Len(s))

\* A partial function (a HashMap) with key k bound to v, and with k removed.
MapInsert(m, k, v) == [x \in DOMAIN m \cup {k} |-> IF x = k THEN v ELSE m[x]]
MapRemove(m, k) == [x \in DOMAIN m \ {k} |-> m[x]]
EmptyMap == [x \in {} |-> 0]

(***************************************************************************)
(* Unsigned varints (LEB128), as unsigned_varint and prost write and read  *)
(* them.                                                                   *)
(***************************************************************************)
RECURSIVE VarintEncode(_)
VarintEncode(v) ==
    IF v < 128 THEN <<v>> ELSE <<(v % 128) + 128>> \o VarintEncode(v \div 128)

\* Index of the first byte without the continuation bit, 0 when there is none.
RECURSIVE VarintEnd(_, _)
VarintEnd(buf, i) ==
    IF i > Len(buf) THEN 0
    ELSE IF buf[i] < 128 THEN i
    ELSE VarintEnd(buf, i + 1)

\* The value of the varint held in buf[1..k].
RECURSIVE VarintValue(_, _)
VarintValue(buf, k) ==
    IF k = 0 THEN 0
    ELSE (buf[1] % 128) + 128 * VarintValue(Drop(buf, 1), k - 1)

\* unsigned_varint::decode::usize: at most UviVarintLen bytes, minimal form.
UviVarintLen == 10
UviVarintDecode(buf) ==
    LET k == VarintEnd(buf, 1) IN
    IF k = 0
      THEN IF Len(buf) >= UviVarintLen THEN [st |-> "overflow"]
                                       ELSE [st |-> "insufficient"]
    ELSE IF k > UviVarintLen THEN [st |-> "overflow"]
    ELSE IF k > 1 /\ buf[k] = 0 THEN [st |-> "notminimal"]
    ELSE [st |-> "ok", val |-> VarintValue(buf, k), rest |-> Drop(buf, k)]

\* prost::encoding::decode_varint: at most 10 bytes, any form.
ProstVarintDecode(buf) ==
    LET k == VarintEnd(buf, 1) IN
    IF k = 0 \/ k > 10 THEN [st |-> "invalid"]
    ELSE [st |-> "ok", val |-> VarintValue(buf, k), rest |-> Drop(buf, k)]

(***************************************************************************)
(* UTF-8 validation (String::from_utf8, and prost's check of a string      *)
(* field).                                                                 *)
(***************************************************************************)
IsCont(b) == b >= 128 /\ b <= 191

RECURSIVE IsUtf8(_)
IsUtf8(s) ==
    IF Len(s) = 0 THEN TRUE
    ELSE LET b == s[1] IN
      IF b < 128 THEN IsUtf8(Drop(s, 1))
      ELSE IF b >= 194 /\ b <= 223
        THEN Len(s) >= 2 /\ IsCont(s[2]) /\ IsUtf8(Drop(s, 2))
      ELSE IF b >= 224 /\ b <= 239
        THEN /\ Len(s) >= 3 /\ IsCont(s[2]) /\ IsCont(s[3])
             /\ (b = 224 => s[2] >= 160)
             /\ (b = 237 => s[2] <= 159)
             /\ IsUtf8(Drop(s, 3))
      ELSE IF b >= 240 /\ b <= 244
        THEN /\ Len(s) >= 4 /\ IsCont(s[2]) /\ IsCont(s[3]) /\ IsCont(s[4])
             /\ (b = 240 => s[2] >= 144)
             /\ (b = 244 => s[2] <= 143)
             /\ IsUtf8(Drop(s, 4))
      ELSE FALSE

(***************************************************************************)
(* message_proto::FileAnnouncement { filename: String, addrs: Vec<Vec<u8>> *)
(* } and its prost serialization: every field is a key byte (tag * 8 +     *)
(* wire type 2), a varint length and the bytes; an empty string is not     *)
(* written.                                                                *)
(***************************************************************************)
FilenameTag == 1
AddrsTag == 2
WireVarint == 0
WireFixed64 == 1
WireLengthDelimited == 2
WireFixed32 == 5

FieldKey(tag, wire) == VarintEncode(tag * 8 + wire)
LengthDelimited(tag, bytes) ==
    FieldKey(tag, WireLengthDelimited) \o VarintEncode(Len(bytes)) \o bytes

RECURSIVE EncodeAddrs(_)
EncodeAddrs(addrs) ==
    IF Len(addrs) = 0 THEN <<>>
    ELSE LengthDelimited(AddrsTag, addrs[1]) \o EncodeAddrs(Drop(addrs, 1))

\* announcement.encode(&mut encoded_msg)
ProtoEncode(ann) ==
    (IF Len(ann.filename) = 0 THEN <<>>
     ELSE LengthDelimited(FilenameTag, ann.filename))
    \o EncodeAddrs(ann.addrs)

\* FileAnnouncement::decode(Cursor::new(msg)).ok(): fields are merged in the
\* order they come; a later filename replaces an earlier one, every addrs
\* field is appended, fields of other tags are skipped.  Groups (wire types
\* 3 and 4) are rejected.
RECURSIVE ProtoMerge(_, _)
ProtoMerge(buf, acc) ==
    IF Len(buf) = 0 THEN Some(acc)
    ELSE LET key == ProstVarintDecode(buf) IN
      IF key.st # "ok" THEN None
      ELSE LET wire == key.val % 8
               tag  == key.val \div 8
           IN
        IF tag = 0 THEN None
        ELSE IF wire = WireLengthDelimited THEN
          LET len == ProstVarintDecode(key.rest) IN
          IF len.st # "ok" THEN None
          ELSE IF len.val > Len(len.rest) THEN None
          ELSE LET body == Take(len.rest, len.val)
                   rest == Drop(len.rest, len.val)
               IN
            IF tag = FilenameTag
              THEN IF IsUtf8(body)
                     THEN ProtoMerge(rest, [acc EXCEPT !.filename = body])
                     ELSE None
            ELSE IF tag = AddrsTag
              THEN ProtoMerge(rest, [acc EXCEPT !.addrs = Append(@, body)])
            ELSE ProtoMerge(rest, acc)
        ELSE IF tag = FilenameTag \/ tag = AddrsTag THEN None
        ELSE IF wire = WireVarint THEN
          LET v == ProstVarintDecode(key.rest) IN
          IF v.st # "ok" THEN None ELSE ProtoMerge(v.rest, acc)
        ELSE IF wire = WireFixed64 THEN
          IF Len(key.rest) < 8 THEN None ELSE ProtoMerge(Drop(key.rest, 8), acc)
        ELSE IF wire = WireFixed32 THEN
          IF Len(key.rest) < 4 THEN None ELSE ProtoMerge(Drop(key.rest, 4), acc)
        ELSE None

ProtoDecode(msg) == ProtoMerge(msg, [filename |-> <<>>, addrs |-> <<>>])

(***************************************************************************)
(* unsigned_varint::codec::UviBytes::default(): a frame is the varint of   *)
(* the payload length followed by the payload; frames longer than          *)
(* UviMaxLen are refused on both sides.                                    *)
(***************************************************************************)
UviMaxLen == 134217728

\* UviEncode with the outer frame flattened away.
UviEncodeNoFrame(msg) == [st |-> "ok", bytes |-> msg]

\* uvi.encode(encoded_msg.freeze(), &mut dst): Err when the payload is too long.
UviEncode(msg) ==
    IF Len(msg) > UviMaxLen THEN [st |-> "err"]
    ELSE [st |-> "ok", bytes |-> VarintEncode(Len(msg)) \o msg]

\* uvi.decode(&mut b): Ok(Some(frame)), Ok(None) when bytes are still missing,
\* Err on a length prefix that is no minimal varint or exceeds UviMaxLen.
UviDecode(buf) ==
    LET len == UviVarintDecode(buf) IN
    IF len.st = "insufficient" THEN [st |-> "ok", frame |-> None]
    ELSE IF len.st # "ok" THEN [st |-> "err"]
    ELSE IF len.val > UviMaxLen THEN [st |-> "err"]
    ELSE IF len.val <= Len(len.rest)
      THEN [st |-> "ok", frame |-> Some(Take(len.rest, len.val))]
    ELSE [st |-> "ok", frame |-> None]

(***************************************************************************)
(* Multiaddr::try_from(Vec<u8>): the bytes are a sequence of protocols,    *)
(* each a varint code followed by its argument.  The table holds the       *)
(* protocols with an argument of fixed size; a code outside it is an       *)
(* error (the protocols with arguments of variable size are not modelled,  *)
(* and no input of the model uses them).                                   *)
(***************************************************************************)
ProtocolTable ==
    { <<4, 4>>, <<6, 2>>, <<33, 2>>, <<41, 16>>, <<132, 2>>, <<273, 2>>,
      <<290, 0>>, <<301, 0>>, <<302, 0>>, <<443, 0>>, <<448, 0>>, <<454, 0>>,
      <<460, 0>>, <<477, 0>>, <<478, 0>>, <<480, 0>> }

U32VarintLen == 5
RECURSIVE IsMultiaddr(_)
IsMultiaddr(bytes) ==
    IF Len(bytes) = 0 THEN TRUE
    ELSE LET k == VarintEnd(bytes, 1) IN
      IF k = 0 \/ k > U32VarintLen \/ (k > 1 /\ bytes[k] = 0) THEN FALSE
      ELSE LET code == VarintValue(bytes, k)
               rows == {r \in ProtocolTable : r[1] = code}
           IN
        IF rows = {} THEN FALSE
        ELSE LET arg == (CHOOSE r \in rows : TRUE)[2] IN
          IF Len(bytes) - k < arg THEN FALSE
          ELSE IsMultiaddr(Drop(bytes, k + arg))

(***************************************************************************)
(* The network: the nodes that run the program, and one foreign peer whose *)
(* messages are arbitrary (it need not run this program).                  *)
(***************************************************************************)
Nodes == {"A", "B"}
Foreign == "X"
Peers == Nodes \cup {Foreign}

\* The topics of main.rs lines 59-61.
ChatTopic == "chat"
AddrsTopic == "addresses"
ProviderTopic == "files"

\* Addresses: /ip4/10.0.0.1/tcp/1, /p2p-circuit, /ip4/10.0.0.2/tcp/2, /udp/9.
AddrA1 == <<4, 10, 0, 0, 1, 6, 0, 1>>
AddrA2 == <<162, 2>>
AddrB1 == <<4, 10, 0, 0, 2, 6, 0, 2>>
AddrX1 == <<145, 2, 0, 9>>
\* No address: /tcp with half a port.
BadAddr == <<6, 0>>

\* The listen addresses each node's swarm reports, in the order it reports them.
ListenAddrs == [n \in Nodes |-> IF n = "A" THEN <<AddrA1, AddrA2>> ELSE <<AddrB1>>]

\* Content names "f" and "g"; file contents.
NameF == <<102>>
NameG == <<103>>
DataF == <<1, 2>>
DataE == <<3>>
DataG == <<4>>
DataX == <<7, 8>>

\* Paths "/d/f", "/e/f", "/d/g", "/x" (no such file), and the directories "/"
\* and "..".
PathDF == <<47, 100, 47, 102>>
PathEF == <<47, 101, 47, 102>>
PathDG == <<47, 100, 47, 103>>
PathX == <<47, 120>>
PathRoot == <<47>>
PathUp == <<46, 46>>
Dirs == {PathRoot, PathUp}
InitDisk == (PathDF :> DataF) @@ (PathEF :> DataE) @@ (PathDG :> DataG)

\* Command lines: "GET f", "GET g", "PUT /d/f", "PUT /e/f", "PUT /d/g",
\* "PUT /x", "PUT /", "MSG hi", "hi" and "PUT/d/g" (no space), "DEL f" (no
\* such command).
Sp == 32
GET == <<71, 69, 84>>
PUT == <<80, 85, 84>>
MSG == <<77, 83, 71>>
Lines ==
    { GET \o <<Sp>> \o NameF, GET \o <<Sp>> \o NameG,
      PUT \o <<Sp>> \o PathDF, PUT \o <<Sp>> \o PathEF,
      PUT \o <<Sp>> \o PathDG, PUT \o <<Sp>> \o PathX,
      PUT \o <<Sp>> \o PathRoot,
      MSG \o <<Sp, 104, 105>>, <<104, 105>>, PUT \o PathDG,
      <<68, 69, 76, Sp, 102>> }

\* The number of inputs the environment gives the system: command lines typed
\* (other than a GET that dispatches a request) and events caused by the
\* foreign peer.
MaxInputs == 2

\* The number of requests the nodes dispatch, all together.
MaxRequests == 2

(***************************************************************************)
(* Payloads the foreign peer publishes and sends.                          *)
(***************************************************************************)
\* The sender's encoding of lines 90-98: the record, then one outer frame.
Frame(msg) == VarintEncode(Len(msg)) \o msg
ForeignAnn == [filename |-> NameF, addrs |-> <<AddrX1>>]
ForeignAnnBadAddr == [filename |-> NameG, addrs |-> <<AddrX1, BadAddr>>]
\* A length prefix that is not minimal (0x80 0x00), one above UviMaxLen, a
\* frame cut short, an empty payload, and a frame whose record is cut short.
NotMinimalFrame == <<128, 0>>
OversizedFrame == <<255, 255, 255, 127, 10, 1, 102>>
TruncatedFrame == Take(Frame(ProtoEncode(ForeignAnn)), 4)
BadRecordFrame == Frame(<<10, 5, 102>>)
ForeignPayloads ==
    [t \in {ChatTopic, AddrsTopic, ProviderTopic} |->
        IF t = ChatTopic THEN {<<104, 105>>}
        ELSE IF t = AddrsTopic THEN {AddrX1, BadAddr}
        ELSE { Frame(ProtoEncode(ForeignAnn)),
               Frame(ProtoEncode(ForeignAnnBadAddr)),
               NotMinimalFrame, OversizedFrame, TruncatedFrame, <<>>,
               BadRecordFrame }]
\* Requests of the foreign peer: "f", "g", and bytes that are not UTF-8.
ForeignRequests == {NameF, NameG, <<255>>}

(***************************************************************************)
(* State.                                                                  *)
(***************************************************************************)
VARIABLES
    status,            \* per node: "running", "failed" (main returned Err), "panicked"
    delay,             \* per node: the timer future, "armed" or "terminated"
    file_list,         \* per node: content name -> provider (line 73)
    providing,         \* per node: content name -> local path (line 74)
    pending_requests,  \* per node: request id -> content name (line 75)
    addr_book,         \* per node: peer -> addresses given to add_address
    listeners,         \* per node: network.listeners(), in order
    next_request_id,   \* per node: the id send_request returns next
    outstanding,       \* per node: ids send_request returned for which no
                       \* response or failure event has been delivered yet
    disk,              \* per node: path -> bytes of the file there
    gossip,            \* published messages not yet delivered
    requests,          \* requests sent and not yet delivered
    responses,         \* responses sent and not yet delivered
    inputs,            \* inputs given by the environment so far
    last               \* the event handled last, and what the handler logged

maps == <<file_list, providing, pending_requests, addr_book>>
net == <<gossip, requests, responses>>
vars == <<status, delay, file_list, providing, pending_requests, addr_book,
          listeners, next_request_id, outstanding, disk, gossip, requests, responses,
          inputs, last>>

Init ==
    /\ status = [n \in Nodes |-> "running"]
    /\ delay = [n \in Nodes |-> "armed"]
    /\ file_list = [n \in Nodes |-> EmptyMap]
    /\ providing = [n \in Nodes |-> EmptyMap]
    /\ pending_requests = [n \in Nodes |-> EmptyMap]
    /\ addr_book = [n \in Nodes |-> [p \in Peers |-> {}]]
    /\ listeners = [n \in Nodes |-> <<>>]
    /\ next_request_id = [n \in Nodes |-> 1]
    /\ outstanding = [n \in Nodes |-> {}]
    /\ disk = [n \in Nodes |-> InitDisk]
    /\ gossip = {}
    /\ requests = {}
    /\ responses = {}
    /\ inputs = 0
    /\ last = [node |-> "A", event |-> "start"]

\* gossipsub.publish(topic, data) that succeeds: one copy for every other node.
Publish(n, topic, data) ==
    {[topic |-> topic, source |-> n, dest |-> d, data |-> data] : d \in Nodes \ {n}}

(***************************************************************************)
(* The announcement codec as the two sides use it.                         *)
(***************************************************************************)
\* Announcement that names the file by the path it is offered from.
AnnouncementOfPath(n, name) == [filename |-> providing[n][name], addrs |-> listeners[n]]

\* Lines 90-93: the record for one offered name, with the listen addresses.
Announcement(n, name) == [filename |-> name, addrs |-> listeners[n]]

\* Lines 95-98: the sender's encoding, "err" when `?' would return.
EncodeAnnouncement(ann) == UviEncode(ProtoEncode(ann))

\* Lines 215-225: the receiver's decoding: "err" when `uvi.decode(&mut b)?'
\* returns from main, else Some(record) or None ("Received invalid message").
DecodeAnnouncement(data) ==
    LET dec == UviDecode(data) IN
    IF dec.st = "err" THEN [st |-> "err"]
    ELSE IF ~IsSome(dec.frame) THEN [st |-> "ok", ann |-> None]
    ELSE [st |-> "ok", ann |-> ProtoDecode(Unwrap(dec.frame))]

(***************************************************************************)
(* The timer branch, lines 86-112.                                         *)
(***************************************************************************)
\* Line 111: the timer is armed again at the end of the branch.
Rearm(n) == [delay EXCEPT ![n] = "armed"]

TimerTick(n) ==
    /\ status[n] = "running"
    /\ delay[n] = "armed"
    /\ LET names == DOMAIN providing[n]
           tooLong == {name \in names :
                          EncodeAnnouncement(Announcement(n, name)).st = "err"}
       IN \E ok \in SUBSET (names \ tooLong) :
            /\ gossip' = gossip \cup UNION
                 {Publish(n, ProviderTopic,
                          EncodeAnnouncement(Announcement(n, name)).bytes) :
                    name \in ok}
            /\ IF tooLong = {}
                 THEN /\ delay' = Rearm(n)
                      /\ UNCHANGED status
                      /\ last' = [node |-> n, event |-> "timer",
                                  names |-> names, published |-> ok,
                                  addrs |-> listeners[n]]
                 ELSE /\ delay' = [delay EXCEPT ![n] = "terminated"]
                      /\ status' = [status EXCEPT ![n] = "failed"]
                      /\ last' = [node |-> n, event |-> "timer_failed"]
    /\ UNCHANGED <<maps, listeners, next_request_id, outstanding, disk, requests, responses,
                   inputs>>

(***************************************************************************)
(* The command branch, lines 115-161.                                      *)
(***************************************************************************)
RECURSIVE IndexOf(_, _, _)
IndexOf(s, b, i) ==
    IF i > Len(s) THEN 0 ELSE IF s[i] = b THEN i ELSE IndexOf(s, b, i + 1)

\* SplitOnce that takes the first three bytes for the prefix when the line
\* has no space.
SplitOnceOrPrefix(line) ==
    LET i == IndexOf(line, Sp, 1) IN
    IF i # 0 THEN Some([prefix |-> Take(line, i - 1), arg |-> Drop(line, i)])
    ELSE IF Len(line) > 3 THEN Some([prefix |-> Take(line, 3), arg |-> Drop(line, 3)])
    ELSE None

\* line.split_once(' ')
SplitOnce(line) ==
    LET i == IndexOf(line, Sp, 1) IN
    IF i = 0 THEN None
    ELSE Some([prefix |-> Take(line, i - 1), arg |-> Drop(line, i)])

\* The components of a path between its '/' separators.
Slash == 47
Dot == 46
RECURSIVE SplitPath(_)
SplitPath(path) ==
    LET i == IndexOf(path, Slash, 1) IN
    IF i = 0 THEN <<path>>
    ELSE <<Take(path, i - 1)>> \o SplitPath(Drop(path, i))

\* path.file_name(): the last component, unless the path ends in ".." or has
\* no component at all ("/", "."); empty and "." components do not count.
IsNormal(c) == c # <<>> /\ c # <<Dot>>
FileName(path) ==
    LET comps == SelectSeq(SplitPath(path), IsNormal) IN
    IF Len(comps) = 0 THEN None
    ELSE IF comps[Len(comps)] = <<Dot, Dot>> THEN None
    ELSE Some(comps[Len(comps)])

\* std::fs::File::open(path) succeeds, std::fs::read(path) succeeds.
CanOpen(n, path) == path \in DOMAIN disk[n] \/ path \in Dirs
CanRead(n, path) == path \in DOMAIN disk[n]

\* Lines 127-135: MSG publishes the text on the chat topic; an error is logged.
MsgCmd(n, arg) ==
    /\ \E ok \in BOOLEAN :
         /\ gossip' = IF ok THEN gossip \cup Publish(n, ChatTopic, arg) ELSE gossip
         /\ last' = [node |-> n, event |-> "msg", published |-> ok]
    /\ UNCHANGED <<status, delay, maps, listeners, next_request_id, outstanding, disk,
                   requests, responses>>

\* TrackRequest that keeps one entry per name.
TrackRequestOnce(pending, id, name) ==
    IF \E i \in DOMAIN pending : pending[i] = name THEN pending
    ELSE MapInsert(pending, id, name)

\* Line 145: pending_requests.insert(request_id, arg.to_string()).
TrackRequest(pending, id, name) == MapInsert(pending, id, name)

\* Provider that falls back on the peer the name was asked of last.
ProviderOrDefault(dir, name) ==
    IF name \in DOMAIN dir THEN Some(dir[name]) ELSE Some(Foreign)

\* Line 137: file_list.get(&arg.to_string()).
Provider(dir, name) ==
    IF name \in DOMAIN dir THEN Some(dir[name]) ELSE None

\* Lines 136-147: GET looks the provider up, sends the request and tracks it.
GetCmd(n, arg) ==
    IF ~IsSome(Provider(file_list[n], arg))
      THEN /\ last' = [node |-> n, event |-> "get", name |-> arg,
                       outcome |-> "no_provider"]
           /\ UNCHANGED <<status, delay, maps, listeners, next_request_id, outstanding,
                          disk, net>>
      ELSE LET id == next_request_id[n]
               provider == Unwrap(Provider(file_list[n], arg))
           IN
           /\ requests' = requests \cup
                {[from |-> n, to |-> provider, id |-> id, payload |-> arg]}
           /\ next_request_id' = [next_request_id EXCEPT ![n] = id + 1]
           /\ outstanding' = [outstanding EXCEPT ![n] = @ \cup {id}]
           /\ pending_requests' =
                [pending_requests EXCEPT ![n] = TrackRequest(@, id, arg)]
           /\ last' = [node |-> n, event |-> "get", name |-> arg,
                       outcome |-> "requested", id |-> id, to |-> provider]
           /\ UNCHANGED <<status, delay, file_list, providing, addr_book,
                          listeners, disk, gossip, responses>>

\* Line 155: providing.insert(filename, arg.to_string()).
Offer(offered, name, path) == MapInsert(offered, name, path)

\* Lines 148-156: PUT checks that the path opens, then offers it under its
\* file name; `unwrap()' panics when the path has none.
PutCmd(n, arg) ==
    IF ~CanOpen(n, arg)
      THEN /\ last' = [node |-> n, event |-> "put", path |-> arg,
                       outcome |-> "cannot_open"]
           /\ UNCHANGED <<status, delay, maps, listeners, next_request_id, outstanding,
                          disk, net>>
    ELSE IF ~IsSome(FileName(arg))
      THEN /\ status' = [status EXCEPT ![n] = "panicked"]
           /\ last' = [node |-> n, event |-> "put", path |-> arg,
                       outcome |-> "panic"]
           /\ UNCHANGED <<delay, maps, listeners, next_request_id, outstanding, disk, net>>
    ELSE /\ providing' =
              [providing EXCEPT ![n] = Offer(@, Unwrap(FileName(arg)), arg)]
         /\ last' = [node |-> n, event |-> "put", path |-> arg,
                     outcome |-> "offered", name |-> Unwrap(FileName(arg))]
         /\ UNCHANGED <<status, delay, file_list, pending_requests, addr_book,
                        listeners, next_request_id, outstanding, disk, net>>

\* Lines 119-160: one line read from stdin.
HandleLine(n, line) ==
    LET split == SplitOnce(line) IN
    IF ~IsSome(split)
      THEN /\ last' = [node |-> n, event |-> "line", outcome |-> "invalid_format"]
           /\ UNCHANGED <<status, delay, maps, listeners, next_request_id, outstanding,
                          disk, net>>
    ELSE LET prefix == Unwrap(split).prefix
             arg == Unwrap(split).arg
         IN
      IF prefix = MSG THEN MsgCmd(n, arg)
      ELSE IF prefix = GET THEN GetCmd(n, arg)
      ELSE IF prefix = PUT THEN PutCmd(n, arg)
      ELSE /\ last' = [node |-> n, event |-> "line", outcome |-> "invalid_prefix"]
           /\ UNCHANGED <<status, delay, maps, listeners, next_request_id, outstanding,
                          disk, net>>

\* The line is a GET for a name the directory of n has a provider for.
Dispatches(n, line) ==
    /\ IsSome(SplitOnce(line))
    /\ Unwrap(SplitOnce(line)).prefix = GET
    /\ IsSome(Provider(file_list[n], Unwrap(SplitOnce(line)).arg))

\* The number of requests the nodes in S have dispatched so far.
RECURSIVE Dispatched(_)
Dispatched(S) ==
    IF S = {} THEN 0
    ELSE LET n == CHOOSE m \in S : TRUE
         IN (next_request_id[n] - 1) + Dispatched(S \ {n})

\* Lines 115-117: the user types a line (reading stdin is taken not to fail,
\* as line 117 expects).
Command(n) ==
    /\ status[n] = "running"
    /\ \E line \in Lines :
         /\ IF Dispatches(n, line)
              THEN Dispatched(Nodes) < MaxRequests /\ UNCHANGED inputs
              ELSE inputs < MaxInputs /\ inputs' = inputs + 1
         /\ HandleLine(n, line)

(***************************************************************************)
(* The network branch, lines 167-277.                                      *)
(***************************************************************************)
\* Lines 170-180: the swarm reports the next listen address; the node
\* publishes it on the address topic (an error is logged).
NewListenAddr(n) ==
    /\ status[n] = "running"
    /\ inputs < MaxInputs
    /\ Len(listeners[n]) < Len(ListenAddrs[n])
    /\ inputs' = inputs + 1
    /\ LET address == ListenAddrs[n][Len(listeners[n]) + 1] IN
       /\ listeners' = [listeners EXCEPT ![n] = Append(@, address)]
       /\ \E ok \in BOOLEAN :
            /\ gossip' = IF ok THEN gossip \cup Publish(n, AddrsTopic, address)
                               ELSE gossip
            /\ last' = [node |-> n, event |-> "listen", address |-> address,
                        published |-> ok]
    /\ UNCHANGED <<status, delay, maps, next_request_id, outstanding, disk, requests,
                   responses>>

\* Index of the first blob that is no address, 0 when all are addresses.
RECURSIVE FirstInvalid(_, _)
FirstInvalid(addrs, i) ==
    IF i > Len(addrs) THEN 0
    ELSE IF ~IsMultiaddr(addrs[i]) THEN i
    ELSE FirstInvalid(addrs, i + 1)

\* Lines 226-228: add_address for every blob in turn; Multiaddr::try_from(addr)?
\* returns from main at the first blob that is no address, with the blobs
\* before it added already.
Registered(addrs) ==
    LET bad == FirstInvalid(addrs, 1)
        upto == IF bad = 0 THEN Len(addrs) ELSE bad - 1
    IN {addrs[i] : i \in 1..upto}

\* request_response.add_address(&source, addr) for a set of addresses.
AddAddresses(book, source, addrs) == [book EXCEPT ![source] = @ \cup addrs]

\* DirectoryInsert with the vacancy test missing: the last announcer wins.
DirectoryOverwrite(dir, name, source) == MapInsert(dir, name, source)

\* DirectoryInsert that starts the directory anew with every new name.
DirectoryReplace(dir, name, source) ==
    IF name \in DOMAIN dir THEN dir ELSE MapInsert(EmptyMap, name, source)

\* Lines 229-232: the entry is inserted only when the name has none.
DirectoryInsert(dir, name, source) ==
    IF name \in DOMAIN dir THEN dir ELSE MapInsert(dir, name, source)

\* Lines 214-232: a message on the content topic.
HandleAnnouncement(n, source, data) ==
    LET dec == DecodeAnnouncement(data) IN
    IF dec.st = "err"
      THEN /\ status' = [status EXCEPT ![n] = "failed"]
           /\ last' = [node |-> n, event |-> "announcement", source |-> source,
                       data |-> data, outcome |-> "frame_error"]
           /\ UNCHANGED <<file_list, addr_book>>
    ELSE IF ~IsSome(dec.ann)
      THEN /\ last' = [node |-> n, event |-> "announcement", source |-> source,
                       data |-> data, outcome |-> "invalid_message"]
           /\ UNCHANGED <<status, file_list, addr_book>>
    ELSE LET ann == Unwrap(dec.ann) IN
      /\ addr_book' =
           [addr_book EXCEPT ![n] = AddAddresses(@, source, Registered(ann.addrs))]
      /\ IF FirstInvalid(ann.addrs, 1) # 0
           THEN /\ status' = [status EXCEPT ![n] = "failed"]
                /\ last' = [node |-> n, event |-> "announcement",
                            source |-> source, data |-> data,
                            outcome |-> "address_error", ann |-> ann]
                /\ UNCHANGED file_list
           ELSE /\ file_list' = [file_list EXCEPT ![n] =
                                   DirectoryInsert(@, ann.filename, source)]
                /\ last' = [node |-> n, event |-> "announcement",
                            source |-> source, data |-> data,
                            outcome |-> "decoded", ann |-> ann]
                /\ UNCHANGED status

\* Lines 233-236: a message on the address topic; `unwrap()' panics when the
\* payload is no address.
HandleAddress(n, source, data) ==
    IF IsMultiaddr(data)
      THEN /\ addr_book' = [addr_book EXCEPT ![n] = AddAddresses(@, source, {data})]
           /\ last' = [node |-> n, event |-> "address", source |-> source,
                       data |-> data, outcome |-> "registered"]
           /\ UNCHANGED <<status, file_list>>
      ELSE /\ status' = [status EXCEPT ![n] = "panicked"]
           /\ last' = [node |-> n, event |-> "address", source |-> source,
                       data |-> data, outcome |-> "panic"]
           /\ UNCHANGED <<file_list, addr_book>>

\* Lines 201-237: a gossipsub message (messages are signed, so `source' is
\* always there).
HandleGossip(n, topic, source, data) ==
    /\ IF topic = ChatTopic
         THEN /\ last' = [node |-> n, event |-> "chat", source |-> source]
              /\ UNCHANGED <<status, file_list, addr_book>>
       ELSE IF topic = ProviderTopic THEN HandleAnnouncement(n, source, data)
       ELSE HandleAddress(n, source, data)
    /\ UNCHANGED <<delay, providing, pending_requests, listeners,
                   next_request_id, outstanding, disk, requests, responses>>

\* A message published by another node arrives.
DeliverGossip(n) ==
    /\ status[n] = "running"
    /\ \E m \in gossip :
         /\ m.dest = n
         /\ gossip' = gossip \ {m}
         /\ HandleGossip(n, m.topic, m.source, m.data)
    /\ UNCHANGED inputs

\* A message published by the foreign peer arrives.
ForeignGossip(n) ==
    /\ status[n] = "running"
    /\ inputs < MaxInputs
    /\ inputs' = inputs + 1
    /\ \E topic \in DOMAIN ForeignPayloads :
         \E data \in ForeignPayloads[topic] :
           HandleGossip(n, topic, Foreign, data)
    /\ UNCHANGED gossip

\* FileContent that answers with no bytes when it has no file to read.
FileContentOrEmpty(n, request) ==
    IF IsUtf8(request) /\ request \in DOMAIN providing[n]
         /\ CanRead(n, providing[n][request])
      THEN Some(disk[n][providing[n][request]])
      ELSE Some(<<>>)

\* Lines 245-246: the bytes to answer with, if the request names an offered
\* file that can be read.
FileContent(n, request) ==
    IF ~IsUtf8(request) THEN None
    ELSE IF request \notin DOMAIN providing[n] THEN None
    ELSE IF ~CanRead(n, providing[n][request]) THEN None
    ELSE Some(disk[n][providing[n][request]])

\* Lines 242-254: an inbound request.
HandleRequest(n, from, id, request) ==
    /\ IF IsSome(FileContent(n, request))
         THEN /\ responses' = responses \cup
                   {[to |-> from, from |-> n, id |-> id,
                     data |-> Unwrap(FileContent(n, request))]}
              /\ last' = [node |-> n, event |-> "request", from |-> from,
                          id |-> id, request |-> request, outcome |-> "served"]
         ELSE /\ UNCHANGED responses
              /\ last' = [node |-> n, event |-> "request", from |-> from,
                          id |-> id, request |-> request, outcome |-> "dropped"]
    /\ UNCHANGED <<status, delay, maps, listeners, next_request_id, outstanding, disk, gossip>>

DeliverRequest(n) ==
    /\ status[n] = "running"
    /\ \E r \in requests :
         /\ r.to = n
         /\ requests' = requests \ {r}
         /\ HandleRequest(n, r.from, r.id, r.payload)
    /\ UNCHANGED inputs

ForeignRequest(n) ==
    /\ status[n] = "running"
    /\ inputs < MaxInputs
    /\ inputs' = inputs + 1
    /\ \E request \in ForeignRequests : HandleRequest(n, Foreign, 0, request)
    /\ UNCHANGED requests

\* What File::create(file_name) and file.write_all_at(&response, 0) can come
\* to: the file is not created; it is created (emptied) and the write fails
\* after k bytes; it is created and written.
StorageOutcomes(name, response) ==
    {[result |-> "create_error"]}
    \cup (IF name \in Dirs \/ name = <<>> THEN {}
          ELSE {[result |-> "written"]}
               \cup {[result |-> "write_error", wrote |-> k] :
                       k \in 0..(Len(response) - 1)})

\* Lines 260-272: the storage after the outcome.
Store(files, name, response, outcome) ==
    IF outcome.result = "create_error" THEN files
    ELSE IF outcome.result = "written" THEN MapInsert(files, name, response)
    ELSE MapInsert(files, name, Take(response, outcome.wrote))

\* Untrack that reads the entry and leaves it in the map.
UntrackKeeps(pending, id) == pending

\* Line 259: pending_requests.remove(&request_id).
Untrack(pending, id) == MapRemove(pending, id)

\* Lines 255-273: a response; `unwrap()' panics when the id is not tracked.
HandleResponse(n, id, response) ==
    /\ IF id \notin DOMAIN pending_requests[n]
         THEN /\ status' = [status EXCEPT ![n] = "panicked"]
              /\ last' = [node |-> n, event |-> "response", id |-> id,
                          response |-> response, outcome |-> "panic"]
              /\ UNCHANGED <<pending_requests, disk>>
         ELSE LET name == pending_requests[n][id] IN
              /\ pending_requests' =
                   [pending_requests EXCEPT ![n] = Untrack(@, id)]
              /\ \E outcome \in StorageOutcomes(name, response) :
                   /\ disk' = [disk EXCEPT ![n] = Store(@, name, response, outcome)]
                   /\ last' = [node |-> n, event |-> "response", id |-> id,
                               response |-> response, name |-> name,
                               outcome |-> outcome.result]
              /\ UNCHANGED status
    /\ outstanding' = [outstanding EXCEPT ![n] = @ \ {id}]
    /\ UNCHANGED <<delay, file_list, providing, addr_book, listeners,
                   next_request_id, gossip>>

\* The response a node sent arrives.
DeliverResponse(n) ==
    /\ status[n] = "running"
    /\ \E r \in responses :
         /\ r.to = n
         /\ responses' = responses \ {r}
         /\ HandleResponse(n, r.id, r.data)
    /\ UNCHANGED <<requests, inputs>>

\* The foreign peer answers a request sent to it.
ForeignResponse(n) ==
    /\ status[n] = "running"
    /\ \E r \in requests :
         /\ r.from = n
         /\ r.to = Foreign
         /\ requests' = requests \ {r}
         /\ HandleResponse(n, r.id, DataX)
    /\ UNCHANGED <<responses, inputs>>

\* A response event whose request id the node does not track: an id it never
\* got from send_request, or one answered before.
SpuriousResponse(n) ==
    /\ status[n] = "running"
    /\ inputs < MaxInputs
    /\ inputs' = inputs + 1
    /\ \E id \in (1..next_request_id[n]) \ DOMAIN pending_requests[n] :
         HandleResponse(n, id, DataX)
    /\ UNCHANGED <<requests, responses>>

\* The last arm taken for a handler that cancels the failed request.
OnOutboundFailureUntrack(pending, id) == MapRemove(pending, id)

\* Line 276: the request of an outstanding id failed or timed out (the
\* provider dropped it, died, or the message was lost); the OutboundFailure
\* event falls to the last arm, which logs it and leaves the tracker alone.
OnOutboundFailure(pending, id) == pending

OutboundFailure(n) ==
    /\ status[n] = "running"
    /\ \E id \in outstanding[n] :
         /\ outstanding' = [outstanding EXCEPT ![n] = @ \ {id}]
         /\ requests' = {r \in requests : ~(r.from = n /\ r.id = id)}
         /\ responses' = {r \in responses : ~(r.to = n /\ r.id = id)}
         /\ pending_requests' =
              [pending_requests EXCEPT ![n] = OnOutboundFailure(@, id)]
         /\ last' = [node |-> n, event |-> "outbound_failure", id |-> id]
    /\ UNCHANGED <<status, delay, file_list, providing, addr_book, listeners,
                   next_request_id, disk, gossip, inputs>>

\* Lines 183-198 and 276: connection, identify and all other events are
\* logged and change nothing.
OtherEvent(n) ==
    /\ status[n] = "running"
    /\ UNCHANGED vars

Next ==
    \E n \in Nodes :
        \/ TimerTick(n)
        \/ Command(n)
        \/ NewListenAddr(n)
        \/ DeliverGossip(n)
        \/ ForeignGossip(n)
        \/ DeliverRequest(n)
        \/ ForeignRequest(n)
        \/ DeliverResponse(n)
        \/ ForeignResponse(n)
        \/ SpuriousResponse(n)
        \/ OutboundFailure(n)
        \/ OtherEvent(n)

Spec == Init /\ [][Next]_vars

(***************************************************************************)
(* The closed system: the nodes alone, every message one that a node       *)
(* published or sent.                                                      *)
(***************************************************************************)
ClosedNext ==
    \E n \in Nodes :
        \/ TimerTick(n)
        \/ Command(n)
        \/ NewListenAddr(n)
        \/ DeliverGossip(n)
        \/ DeliverRequest(n)
        \/ DeliverResponse(n)
        \/ OtherEvent(n)

ClosedSpec == Init /\ [][ClosedNext]_vars

(***************************************************************************)
(* Which handler a step ran.  Every handler records its event in `last';   *)
(* a step that handled an input or a delivery also counts the input or     *)
(* takes the message out of the network; a request dispatched or failed   *)
(* changes what the request-response behaviour holds.                      *)
(***************************************************************************)
Shrinks(after, before) == after # before /\ after \subseteq before
Consumed ==
    \/ inputs' # inputs
    \/ Shrinks(gossip', gossip)
    \/ Shrinks(requests', requests)
    \/ Shrinks(responses', responses)
    \/ next_request_id' # next_request_id
    \/ outstanding' # outstanding
Handled(event) == Consumed /\ last'.event = event

\* Nothing of node n's program state, storage or of the network changes.
NodeUntouched(n) ==
    /\ file_list'[n] = file_list[n]
    /\ providing'[n] = providing[n]
    /\ pending_requests'[n] = pending_requests[n]
    /\ addr_book'[n] = addr_book[n]
    /\ disk'[n] = disk[n]

(***************************************************************************)
(* C1.  First-writer-wins: once a node's directory maps a name to a        *)
(* provider, no step (a later announcement for the name from another peer  *)
(* or with other addresses, or any other event) changes or removes that    *)
(* entry.                                                                  *)
(***************************************************************************)
C1_FirstWriterWins ==
    [][\A n \in Nodes : \A name \in DOMAIN file_list[n] :
          /\ name \in DOMAIN file_list'[n]
          /\ file_list'[n][name] = file_list[n][name]]_vars

\* An announcement for a name was handled whose source is not the provider
\* the directory keeps for that name.
C1_Witness ==
    /\ last.event = "announcement"
    /\ last.outcome = "decoded"
    /\ last.ann.filename \in DOMAIN file_list[last.node]
    /\ file_list[last.node][last.ann.filename] # last.source

(***************************************************************************)
(* C2.  Request correlation, as the claim states it: when the response for *)
(* a tracked request id is handled, the entry of that id is removed, the   *)
(* other entries stay, and the response bytes are the content of the file  *)
(* named by the entry, and of no other file.                               *)
(***************************************************************************)
TrackedResponse ==
    /\ Handled("response")
    /\ last'.id \in DOMAIN pending_requests[last'.node]

Correlated(n, id) ==
    LET name == pending_requests[n][id] IN
    /\ id \notin DOMAIN pending_requests'[n]
    /\ DOMAIN pending_requests'[n] = DOMAIN pending_requests[n] \ {id}
    /\ \A other \in DOMAIN pending_requests'[n] :
         pending_requests'[n][other] = pending_requests[n][other]
    /\ \A m \in Nodes \ {n} : pending_requests'[m] = pending_requests[m]
    /\ \A m \in Nodes \ {n} : disk'[m] = disk[m]
    /\ \A path \in (DOMAIN disk[n] \cup DOMAIN disk'[n]) \ {name} :
         /\ path \in DOMAIN disk[n] /\ path \in DOMAIN disk'[n]
         /\ disk'[n][path] = disk[n][path]

Written(n, id) ==
    LET name == pending_requests[n][id] IN
    /\ name \in DOMAIN disk'[n]
    /\ disk'[n][name] = last'.response

C2_Original ==
    [][TrackedResponse =>
         /\ Correlated(last'.node, last'.id)
         /\ Written(last'.node, last'.id)]_vars

\* C2 as amended: the bytes are written under the recorded name unless
\* creating or writing the file fails; the entry is removed either way, and
\* no file of another name is touched.
C2_Correlation ==
    [][TrackedResponse =>
         /\ Correlated(last'.node, last'.id)
         /\ (last'.outcome = "written" => Written(last'.node, last'.id))
         /\ (last'.outcome = "create_error" => disk' = disk)]_vars

\* The response of a request for "f" was handled and stored as file "f".
C2_Witness ==
    /\ last.event = "response"
    /\ last.outcome = "written"
    /\ last.name = NameF
    /\ last.id \notin DOMAIN pending_requests[last.node]
    /\ disk[last.node][NameF] = last.response

(***************************************************************************)
(* C3.  A response whose request id is not tracked is ignored: the loop    *)
(* keeps running, nothing is stored and no map changes.                    *)
(***************************************************************************)
C3_UntrackedIgnored ==
    [][(Handled("response")
        /\ last'.id \notin DOMAIN pending_requests[last'.node]) =>
         /\ status'[last'.node] = "running"
         /\ NodeUntouched(last'.node)]_vars

(***************************************************************************)
(* C4.  No-provider GET: a GET for a name the directory has no entry for   *)
(* sends nothing, tracks nothing, changes no map and leaves the loop       *)
(* running; a GET for a name that has an entry (recorded by then) does     *)
(* send a request to the provider and tracks it.                           *)
(***************************************************************************)
C4_NoProviderGet ==
    [][Handled("get") =>
         LET n == last'.node
             name == last'.name
         IN
         /\ status'[n] = "running"
         /\ IF name \notin DOMAIN file_list[n]
              THEN /\ requests' = requests
                   /\ next_request_id' = next_request_id
                   /\ NodeUntouched(n)
                   /\ gossip' = gossip /\ responses' = responses
              ELSE /\ \E r \in requests' \ requests :
                        /\ r.from = n /\ r.to = file_list[n][name]
                        /\ r.id \in DOMAIN pending_requests'[n]
                        /\ r.id \notin DOMAIN pending_requests[n]
                        /\ pending_requests'[n][r.id] = name]_vars

\* A GET was handled for a name without provider, and the node runs on.
C4_Witness ==
    /\ last.event = "get"
    /\ last.outcome = "no_provider"
    /\ last.name \notin DOMAIN file_list[last.node]
    /\ status[last.node] = "running"
    /\ requests = {}

(***************************************************************************)
(* C5.  Malformed-frame resilience: a payload on the content topic that    *)
(* fails the outer frame parse or the record parse is dropped: directory   *)
(* and address book stay as they are and the loop keeps running.           *)
(***************************************************************************)
Malformed(data) ==
    LET dec == UviDecode(data) IN
    \/ dec.st = "err"
    \/ ~IsSome(dec.frame)
    \/ ~IsSome(ProtoDecode(Unwrap(dec.frame)))

C5_MalformedDropped ==
    [][(Handled("announcement") /\ Malformed(last'.data)) =>
         /\ status'[last'.node] = "running"
         /\ NodeUntouched(last'.node)]_vars

(***************************************************************************)
(* C6.  No partial announcements: an announcement that decodes as a record *)
(* but holds a blob that is no address is rejected whole: no address of it *)
(* is registered, no directory entry is made and the loop keeps running.   *)
(***************************************************************************)
C6_NoPartialAnnouncement ==
    [][(Handled("announcement") /\ ~Malformed(last'.data)
        /\ LET ann == Unwrap(ProtoDecode(Unwrap(UviDecode(last'.data).frame)))
           IN \E i \in 1..Len(ann.addrs) : ~IsMultiaddr(ann.addrs[i])) =>
         /\ status'[last'.node] = "running"
         /\ NodeUntouched(last'.node)]_vars

(***************************************************************************)
(* C7.  A payload on the address topic that is an address is registered    *)
(* for the announcing peer; one that is none is skipped: nothing changes   *)
(* and the loop keeps running.                                             *)
(***************************************************************************)
C7_AddressTopic ==
    [][Handled("address") =>
         LET n == last'.node IN
         /\ status'[n] = "running"
         /\ IF IsMultiaddr(last'.data)
              THEN addr_book'[n] = [addr_book[n] EXCEPT
                                      ![last'.source] = @ \cup {last'.data}]
              ELSE NodeUntouched(n)]_vars

(***************************************************************************)
(* C8.  End-to-end fetch, in the closed system.  The claim promises that   *)
(* once A offers "f", B eventually records A as its provider, and that     *)
(* once B has requested "f" of A, B eventually stores the answer.  A run   *)
(* keeps these promises only if it never comes to a state where they can   *)
(* no longer be kept: while A offers "f" and B has no entry for it, both   *)
(* loops run; while B's request is pending, B's loop runs, and A's does    *)
(* until it has answered.                                                  *)
(***************************************************************************)
Running(n) == status[n] = "running"

C8_EndToEnd ==
    /\ (NameF \in DOMAIN providing["A"] /\ NameF \notin DOMAIN file_list["B"])
         => (Running("A") /\ Running("B"))
    /\ \A id \in DOMAIN pending_requests["B"] :
         pending_requests["B"][id] = NameF =>
           /\ Running("B")
           /\ \/ \E r \in responses : r.to = "B" /\ r.id = id
              \/ Running("A") /\ \E r \in requests : r.from = "B" /\ r.id = id

(***************************************************************************)
(* C9.  Round-trip codec: the receiver's decoding of the sender's encoding *)
(* of an announcement is that announcement: for every name a node offers   *)
(* with the addresses it listens on, for the announcements that travel     *)
(* between nodes, and for a set of further records (an empty name, a name  *)
(* of two-byte characters, no address, several addresses, an empty one).   *)
(***************************************************************************)
RoundTrips(ann) ==
    LET enc == EncodeAnnouncement(ann) IN
    /\ enc.st = "ok"
    /\ DecodeAnnouncement(enc.bytes) = [st |-> "ok", ann |-> Some(ann)]

SampleAnnouncements ==
    [filename : {<<>>, NameF, <<195, 169, 103>>},
     addrs : {<<>>, <<AddrA1>>, <<AddrA2, AddrA1>>, <<<<>>, AddrX1, AddrA2>>}]

IsPrefix(s, t) == Len(s) <= Len(t) /\ s = Take(t, Len(s))

C9_RoundTrip ==
    /\ \A n \in Nodes : \A name \in DOMAIN providing[n] :
         RoundTrips(Announcement(n, name))
    /\ \A ann \in SampleAnnouncements : RoundTrips(ann)
    /\ (last.event = "announcement" /\ last.source \in Nodes) =>
         /\ last.outcome = "decoded"
         /\ last.ann.filename \in DOMAIN providing[last.source]
         /\ IsPrefix(last.ann.addrs, listeners[last.source])

\* A node decoded the announcement of another node, name and address.
C9_Witness ==
    /\ last.event = "announcement"
    /\ last.source \in Nodes
    /\ last.outcome = "decoded"
    /\ last.ann = Announcement(last.source, last.ann.filename)
    /\ Len(last.ann.addrs) >= 1
    /\ last.ann.filename \in DOMAIN providing[last.source]

(***************************************************************************)
(* C10.  Soft-state refresh: a timer tick publishes nothing but the        *)
(* announcements of the names offered, each with the listen addresses of   *)
(* that moment, leaves the loop running whether or not a publish fails,    *)
(* and arms the timer again (C10_TickPublishes); and the timer event       *)
(* recurs for ever at every node, for which the loop must run and the      *)
(* timer be armed in every state (C10_SoftStateRefresh).                   *)
(***************************************************************************)
TimerHandled == last'.event = "timer" /\ ~Consumed /\ vars' # vars

C10_TickPublishes ==
    [][TimerHandled =>
         LET n == last'.node IN
         /\ last'.names = DOMAIN providing[n]
         /\ gossip \subseteq gossip'
         /\ gossip' \ gossip \subseteq UNION
              {Publish(n, ProviderTopic,
                       Frame(ProtoEncode([filename |-> name,
                                          addrs |-> listeners[n]]))) :
                 name \in DOMAIN providing[n]}
         /\ status'[n] = "running"
         /\ delay'[n] = "armed"
         /\ NodeUntouched(n)]_vars

\* The timer event can recur: the loop runs and the timer is armed.
C10_SoftStateRefresh ==
    \A n \in Nodes : status[n] = "running" /\ delay[n] = "armed"

(***************************************************************************)
(* C11.  Responder side: an inbound request is answered if and only if its *)
(* payload is UTF-8, names an offered file and that file can be read; the  *)
(* answer is one response for that request with the whole content of the   *)
(* file; otherwise nothing is sent.  In both cases no map and no file      *)
(* changes and the loop keeps running.                                     *)
(***************************************************************************)
C11_Responder ==
    [][Handled("request") =>
         LET n == last'.node
             request == last'.request
             offered == /\ IsUtf8(request)
                        /\ request \in DOMAIN providing[n]
                        /\ providing[n][request] \in DOMAIN disk[n]
         IN
         /\ status' = status
         /\ NodeUntouched(n)
         /\ gossip' = gossip
         /\ requests' \subseteq requests
         /\ IF offered
              THEN responses' = responses \cup
                     {[to |-> last'.from, from |-> n, id |-> last'.id,
                       data |-> disk[n][providing[n][request]]]}
              ELSE responses' = responses]_vars

\* A node answered the request of another node with the content of the file
\* it offers under the name asked for.
C11_Witness ==
    /\ last.event = "request"
    /\ last.outcome = "served"
    /\ last.from \in Nodes
    /\ \E r \in responses :
         /\ r.to = last.from /\ r.from = last.node /\ r.id = last.id
         /\ r.data = disk[last.node][providing[last.node][last.request]]

(***************************************************************************)
(* C12.  PUT never ends the loop; a path that cannot be opened leaves the  *)
(* offers as they are; a path that can be opened, with or without a final  *)
(* segment, is offered under one name, in place of any path offered under  *)
(* that name before, and the offers under other names stay.                *)
(***************************************************************************)
C12_Put ==
    [][Handled("put") =>
         LET n == last'.node
             path == last'.path
         IN
         /\ status'[n] = "running"
         /\ IF path \in DOMAIN disk[n] \cup Dirs
              THEN \E name \in DOMAIN providing'[n] :
                     /\ providing'[n][name] = path
                     /\ DOMAIN providing'[n] = DOMAIN providing[n] \cup {name}
                     /\ \A other \in DOMAIN providing[n] \ {name} :
                          providing'[n][other] = providing[n][other]
              ELSE providing'[n] = providing[n]]_vars

(***************************************************************************)
(* C13.  A command line without a space, or whose prefix is none of MSG,   *)
(* GET and PUT, is ignored: handling it changes no map and no file,        *)
(* publishes nothing, sends nothing, and the loop keeps running.           *)
(***************************************************************************)
HasNoSpace(line) == \A i \in 1..Len(line) : line[i] # Sp

UnknownPrefix(line) ==
    \E i \in 1..Len(line) :
        /\ line[i] = Sp
        /\ \A j \in 1..(i - 1) : line[j] # Sp
        /\ SubSeq(line, 1, i - 1) \notin {MSG, GET, PUT}

MalformedLines == {line \in Lines : HasNoSpace(line) \/ UnknownPrefix(line)}

C13_MalformedLineIgnored ==
    [][\A n \in Nodes : \A line \in MalformedLines :
          (status[n] = "running" /\ inputs' = inputs + 1 /\ HandleLine(n, line)) =>
             /\ status' = status
             /\ maps' = maps
             /\ disk' = disk
             /\ net' = net
             /\ next_request_id' = next_request_id]_vars

\* A line with an unknown prefix was handled and the node runs on.
C13_Witness ==
    /\ last.event = "line"
    /\ last.outcome = "invalid_prefix"
    /\ status[last.node] = "running"
    /\ inputs >= 1

(***************************************************************************)
(* C14.  Tracker/outstanding correspondence: in every state the request    *)
(* ids a node tracks are the ids of the requests it dispatched for which   *)
(* neither a response nor a failure or timeout event has been delivered.   *)
(***************************************************************************)
C14_TrackerIsOutstanding ==
    \A n \in Nodes : DOMAIN pending_requests[n] = outstanding[n]

(***************************************************************************)
(* C15.  A pending entry is removed only by its matching response: every   *)
(* step keeps every entry with its name, unless the step handles the       *)
(* response that carries the id of the entry; a timer tick, a command, a   *)
(* broadcast message, an inbound request, a failure or timeout of the      *)
(* request itself, or any other event leaves it alone.                     *)
(***************************************************************************)
C15_RemovedOnlyByResponse ==
    [][\A n \in Nodes : \A id \in DOMAIN pending_requests[n] :
          \/ /\ id \in DOMAIN pending_requests'[n]
             /\ pending_requests'[n][id] = pending_requests[n][id]
          \/ /\ Handled("response")
             /\ last'.node = n
             /\ last'.id = id]_vars

\* The request of a pending entry failed, the node handled the failure event
\* and runs on, and the entry is still there.
C15_Witness ==
    /\ last.event = "outbound_failure"
    /\ status[last.node] = "running"
    /\ last.id \in DOMAIN pending_requests[last.node]
    /\ last.id \notin outstanding[last.node]

(***************************************************************************)
(* C16.  Requester dispatch: a GET for a name the directory maps to a      *)
(* provider sends one request, to that provider, whose payload is the      *)
(* name, and adds one entry, from the id of that request (an id not        *)
(* tracked before) to the name; all other entries stay, so that two GETs   *)
(* for one name leave two entries; and a response removes no entry but     *)
(* that of its own id.                                                     *)
(***************************************************************************)
C16_RequesterDispatch ==
    [][/\ (Handled("get") /\ last'.name \in DOMAIN file_list[last'.node]) =>
            LET n == last'.node
                name == last'.name
            IN \E id \in DOMAIN pending_requests'[n] \ DOMAIN pending_requests[n] :
                 LET sent == [from |-> n, to |-> file_list[n][name], id |-> id,
                              payload |-> name]
                 IN
                 /\ sent \notin requests
                 /\ requests' = requests \cup {sent}
                 /\ DOMAIN pending_requests'[n] = DOMAIN pending_requests[n] \cup {id}
                 /\ pending_requests'[n][id] = name
                 /\ \A other \in DOMAIN pending_requests[n] :
                      pending_requests'[n][other] = pending_requests[n][other]
                 /\ \A m \in Nodes \ {n} : pending_requests'[m] = pending_requests[m]
                 /\ <<file_list, providing, addr_book, disk, gossip, responses>>' =
                      <<file_list, providing, addr_book, disk, gossip, responses>>
                 /\ status' = status
       /\ Handled("response") =>
            DOMAIN pending_requests[last'.node] \ DOMAIN pending_requests'[last'.node]
              \subseteq {last'.id}]_vars

\* A node has two pending entries for one name, under the ids of the two
\* requests it sent for it, both still in flight to the provider.
C16_Witness ==
    \E n \in Nodes : \E i, j \in DOMAIN pending_requests[n] :
        /\ i # j
        /\ pending_requests[n][i] = pending_requests[n][j]
        /\ \E r1, r2 \in requests :
             /\ r1.from = n /\ r1.id = i /\ r1.payload = pending_requests[n][i]
             /\ r2.from = n /\ r2.id = j /\ r2.payload = pending_requests[n][j]
             /\ r1.to = file_list[n][pending_requests[n][i]]
             /\ r2.to = r1.to

(***************************************************************************)
(* C18.  Storage failure on response: when the response of a tracked       *)
(* request is handled and the file cannot be created or written, the loop  *)
(* keeps running, the entry of the request is removed all the same, and    *)
(* directory, address book and offers stay as they are.                    *)
(***************************************************************************)
C18_StorageFailure ==
    [][(TrackedResponse /\ last'.outcome \in {"create_error", "write_error"}) =>
         LET n == last'.node IN
         /\ status' = status
         /\ status'[n] = "running"
         /\ last'.id \notin DOMAIN pending_requests'[n]
         /\ <<file_list, addr_book, providing>>' = <<file_list, addr_book, providing>>]_vars

\* The response of a tracked request came, the file could not be created,
\* and the node runs on without the entry and without the file.
C18_Witness ==
    /\ last.event = "response"
    /\ last.outcome = "create_error"
    /\ status[last.node] = "running"
    /\ last.id \notin DOMAIN pending_requests[last.node]
    /\ last.name \notin DOMAIN disk[last.node]

(***************************************************************************)
(* C19.  Directory entries are backed by offers, in the closed system      *)
(* (every message is one a node published or sent): whenever the directory *)
(* of a node maps a name to a provider, the provider offers that name; so  *)
(* a request a GET dispatched names a file its addressee offers, in flight *)
(* and when the addressee handles it.                                      *)
(***************************************************************************)
C19_BackedByOffers ==
    /\ \A n \in Nodes : \A name \in DOMAIN file_list[n] :
         /\ file_list[n][name] \in Nodes
         /\ name \in DOMAIN providing[file_list[n][name]]
    /\ \A r \in requests : r.payload \in DOMAIN providing[r.to]
    /\ last.event = "request" =>
         /\ last.request \in DOMAIN providing[last.node]
         /\ last.outcome = "served"

\* A node handled the request another node dispatched for a name its
\* directory maps to this node, which offers it.
C19_Witness ==
    /\ last.event = "request"
    /\ last.from \in Nodes
    /\ last.request \in DOMAIN file_list[last.from]
    /\ file_list[last.from][last.request] = last.node
    /\ last.request \in DOMAIN providing[last.node]

(***************************************************************************)
(* C20.  Pending names are known names: in every state, every name a node  *)
(* tracks a request for is a key of the directory of that node.            *)
(***************************************************************************)
C20_PendingNamesKnown ==
    \A n \in Nodes : \A id \in DOMAIN pending_requests[n] :
        pending_requests[n][id] \in DOMAIN file_list[n]

\* A node tracks a request for a name of its directory, and the directory
\* has grown by another name since.
C20_Witness ==
    \E n \in Nodes :
        /\ pending_requests[n] # EmptyMap
        /\ \A id \in DOMAIN pending_requests[n] :
             pending_requests[n][id] \in DOMAIN file_list[n]
        /\ \E name \in DOMAIN file_list[n] :
             \A id \in DOMAIN pending_requests[n] : pending_requests[n][id] # name

=============================================================================
